---- MODULE Spec2Model ----
(***************************************************************************)
(* Model of PHARE's FluidParticleInitializer                                *)
(* (src/core/data/ions/particle_initializers/fluid_particle_initializer.h). *)
(*                                                                         *)
(* An initializer is constructed once with its profiles, the particle      *)
(* charge, the number of particles per cell, the basis and an optional     *)
(* magnetic field profile.  Threads then call loadParticles, each on its   *)
(* own ParticleArray and its own GridLayout.  A call is cut into steps:    *)
(* the entry of loadParticlesND_ (ranges, cell volume, generator,          *)
(* references), one step per cell (profiles, cell weight, local basis) and *)
(* one step per particle (velocity, position, push_back).                  *)
(*                                                                         *)
(* Reals are modelled exactly: a weight is the fraction num/den, a         *)
(* coordinate is counted in half mesh spacings, a random number is the     *)
(* generator state it was drawn from.                                      *)
(***************************************************************************)
EXTENDS Integers, Sequences, FiniteSets, TLC

\* ---------------------------------------------------------------- bounds
MaxPPC == 2        \* nbrParticlePerCell ranges over 0..MaxPPC
MaxExtent == 2     \* cells of a region along x range over 0..MaxExtent
MaxCalls == 2      \* successive loadParticles calls of the sequential thread

Threads == {1, 2}

\* ------------------------------------------------------------ value sets
BasisValues == {"Cartesian", "Magnetic"}
DensityProfiles == {"uniform", "dip"}
MagneticProfiles == {"null", "nullpoint"}
Charges == {1}
Dimensions == {1, 2, 3}
\* values std::random_device may return (2D and 3D seed the generator with it)
RandomDeviceSeeds == {7, 8}

VARIABLES
    constructed,          \* the constructor has run
    dimension,            \* GridLayout::dimension (a compile-time constant)
    density_, bulkVelocity_, thermalVelocity_,
    particleCharge_, nbrParticlePerCell_, basis_, magneticField_,
    pc,                   \* per thread: "idle", "cell", "part", "done"
    layout,               \* per thread: the GridLayout of the call
    particles,            \* per thread: the ParticleArray of the call
    iCell,                \* per thread: loop indices <<ix>>, <<ix,iy>>, <<ix,iy,iz>>
    ipart,                \* per thread: inner loop counter
    generator,            \* per thread: the call's std::mt19937_64
    cell,                 \* per thread: n, V, Vth, basis, cellWeight of the cell
    base,                 \* history: size of the container when the call began
    calls,                \* history: calls begun by the thread
    visited,              \* history: cells whose body the current call entered
    aborted               \* the process died (undefined behaviour took that turn)

config == <<dimension, density_, bulkVelocity_, thermalVelocity_,
            particleCharge_, nbrParticlePerCell_, basis_, magneticField_>>
locals == <<pc, layout, iCell, ipart, generator, cell, base, calls, visited>>
vars == <<constructed, config, locals, particles, aborted>>

\* ------------------------------------------------------------- helpers
RECURSIVE SumSeq(_)
SumSeq(s) == IF s = << >> THEN 0 ELSE Head(s) + SumSeq(Tail(s))

\* ---------------------------------------------- collaborators (GridLayout,
\* profile functions, the three free functions declared at the top of the file)

\* GridLayout::cellCenteredCoordinates: the centre of cell i, counted in half
\* mesh spacings from the origin of the index space
cellCenteredCoordinates(i) == [k \in 1..Len(i) |-> 2 * i[k] + 1]

\* (*density_)(x...): "uniform" is 10 everywhere; "dip" is positive at the
\* first cell of the index space and negative everywhere else
density(prof, coord) ==
    IF prof = "uniform" THEN 10 ELSE Len(coord) + 1 - SumSeq(coord)

\* (*bulkVelocity_)(x...) and (*thermalVelocity_)(x...)
bulkVelocity(prof, coord) == <<1, 0, 0>>
thermalVelocity(prof, coord) == <<coord[1] - 1, 0, 0>>

\* (*magneticField_)(x...): "nullpoint" vanishes in the cells of the first
\* x layer and is oblique elsewhere
magneticField(prof, coord) == <<coord[1] - 1, coord[1] - 1, 0>>

\* what a call through the null reference may hand back when it does not crash
GarbageFields == {<<2, 2, 0>>}

\* number of generator states one maxwellianVelocity call consumes: two
\* uniform draws per pair of components (Box-Muller), two pairs for three
\* components
VelDraws == 4

\* std::mt19937_64: the seed and the number of values drawn so far
Seeded(s) == [seed |-> s, pos |-> 0]
\* generator(): the value drawn is named by the state it comes from
Draw(g) == <<g.seed, g.pos>>
Advance(g) == [g EXCEPT !.pos = @ + 1]

\* maxwellianVelocity(V, Vth, generator, partVelocity): the velocity written
\* to partVelocity.  It is a function of V, Vth and the VelDraws states the
\* function's generator goes through.
maxwellianVelocity(V, Vth, g) ==
    [V |-> V, Vth |-> Vth,
     states |-> {<<g.seed, g.pos + k>> : k \in 0..(VelDraws - 1)},
     frame |-> [kind |-> "sampled", B |-> <<0, 0, 0>>]]

\* the caller's generator after maxwellianVelocity returns: the parameter is
\* declared std::mt19937_64 generator, a copy, so the caller's is untouched
GeneratorAfterMaxwellian(g) == g

\* localMagneticBasis(B, basis): the basis aligned with B, or the distinct
\* degenerate state when |B| is below the tolerance
localMagneticBasis(B) ==
    IF B = <<0, 0, 0>> THEN [kind |-> "Degenerate", B |-> B]
    ELSE [kind |-> "aligned", B |-> B]

\* basisTransform(basis, vec): vec read as coordinates in basis
basisTransform(basis, vec) == [vec EXCEPT !.frame = basis]

\* ----------------------------------------------------- pieces of the loops
cellVolume1D(meshSize) == meshSize[1]
cellVolume2D(meshSize) == meshSize[1] * meshSize[2]
cellVolume3D(meshSize) == meshSize[1] * meshSize[2] * meshSize[3]

cellVolume(L) ==
    CASE Len(L.meshSize) = 1 -> cellVolume1D(L.meshSize)
      [] Len(L.meshSize) = 2 -> cellVolume2D(L.meshSize)
      [] OTHER -> cellVolume3D(L.meshSize)

WeightNoVolume(n, vol, nbr) == [num |-> n, den |-> nbr]
\* auto cellWeight = n * cellVolume / nbrParticlePerCell_ (a double division:
\* a zero count gives an infinity or a NaN, den = 0 here, and no trap)
cellWeightOf(n, vol, nbr) == [num |-> n * vol, den |-> nbr]

LoopRunsInclusive(ip, nbr) == ip <= nbr
\* ipart < nbrParticlePerCell_, the test of the particle loop
ParticleLoopRuns(ip, nbr) == ip < nbr

StaticGenerator(t) == 1
\* std::mt19937_64 generator(...) is a local of loadParticlesND_: the
\* generator a call of thread t draws from is that call's own
GeneratorOf(t) == t

PushFront(c, p) == <<p>> \o c
\* particles.push_back(std::move(tmpParticle))
push_back(c, p) == Append(c, p)

\* the loop nests: does the body run at all, and the indices of the next run
\* of the body after i (<< >> when the loops are over)
HasCells(L) == \A k \in 1..Len(L.start) : L.start[k] < L.end[k]

NextCell1DInclusive(i, L) ==
    IF i[1] + 1 <= L.end[1] THEN <<i[1] + 1>> ELSE << >>
NextCell1D(i, L) ==
    IF i[1] + 1 < L.end[1] THEN <<i[1] + 1>> ELSE << >>

NextCell2DYOuter(i, L) ==
    IF i[1] + 1 < L.end[1] THEN <<i[1] + 1, i[2]>>
    ELSE IF i[2] + 1 < L.end[2] THEN <<L.start[1], i[2] + 1>>
    ELSE << >>
NextCell2D(i, L) ==
    IF i[2] + 1 < L.end[2] THEN <<i[1], i[2] + 1>>
    ELSE IF i[1] + 1 < L.end[1] THEN <<i[1] + 1, L.start[2]>>
    ELSE << >>

NextCell3D(i, L) ==
    IF i[3] + 1 < L.end[3] THEN <<i[1], i[2], i[3] + 1>>
    ELSE IF i[2] + 1 < L.end[2] THEN <<i[1], i[2] + 1, L.start[3]>>
    ELSE IF i[1] + 1 < L.end[1] THEN <<i[1] + 1, L.start[2], L.start[3]>>
    ELSE << >>

NextCell(i, L) ==
    CASE Len(i) = 1 -> NextCell1D(i, L)
      [] Len(i) = 2 -> NextCell2D(i, L)
      [] OTHER -> NextCell3D(i, L)

\* ------------------------------------------------------ inputs of the calls
\* the layouts thread t may pass: x starts at a multiple of MaxExtent, so the
\* regions of different threads never overlap
XStart(t) == (t - 1) * MaxExtent

Layouts(t, dim, extents) ==
    { [start |-> SubSeq(<<XStart(t), 0, 0>>, 1, dim),
       end |-> SubSeq(<<XStart(t) + e, 2, 2>>, 1, dim),
       meshSize |-> SubSeq(<<2, 3, 5>>, 1, dim)] : e \in extents }

AllLayouts(t, dim) == Layouts(t, dim, 0..MaxExtent)

NoCell == [n |-> 0, V |-> <<0, 0, 0>>, Vth |-> <<0, 0, 0>>,
           basis |-> [kind |-> "unset", B |-> <<0, 0, 0>>], cellWeight |-> [num |-> 0, den |-> 1]]
NoLayout == [start |-> <<0>>, end |-> <<0>>, meshSize |-> <<1>>]

\* ---------------------------------------------------------------- Init
Init ==
    /\ constructed = FALSE
    /\ dimension \in Dimensions
    /\ density_ = "none" /\ bulkVelocity_ = "none" /\ thermalVelocity_ = "none"
    /\ particleCharge_ = 0 /\ nbrParticlePerCell_ = 0
    /\ basis_ = "Cartesian" /\ magneticField_ = "null"
    /\ pc = [t \in Threads |-> "idle"]
    /\ layout = [t \in Threads |-> NoLayout]
    /\ particles = [t \in Threads |-> << >>]
    /\ iCell = [t \in Threads |-> << >>]
    /\ ipart = [t \in Threads |-> 0]
    /\ generator = [t \in Threads |-> Seeded(0)]
    /\ cell = [t \in Threads |-> NoCell]
    /\ base = [t \in Threads |-> 0]
    /\ calls = [t \in Threads |-> 0]
    /\ visited = [t \in Threads |-> << >>]
    /\ aborted = FALSE

\* FluidParticleInitializer(density, bulkVelocity, thermalVelocity,
\* particleCharge, nbrParticlesPerCell, basis, magneticField): every member is
\* initialised from its argument and the body is empty
Construct(d, q, nbr, b, mf) ==
    /\ ~constructed
    /\ constructed' = TRUE
    /\ density_' = d
    /\ bulkVelocity_' = "drift"
    /\ thermalVelocity_' = "gradient"
    /\ particleCharge_' = q
    /\ nbrParticlePerCell_' = nbr
    /\ basis_' = b
    /\ magneticField_' = mf
    /\ UNCHANGED <<dimension, locals, particles, aborted>>

\* ------------------------------------------------- entry of loadParticlesND_
\* ranges, cell volume, generator, then the four references.  Binding
\* *magneticField_ when the pointer is null is undefined: a hardened standard
\* library aborts there, any other build goes on with a null reference.
Enter(t, L, seed) ==
    /\ constructed /\ ~aborted
    /\ pc[t] \in {"idle", "done"}
    /\ \/ /\ magneticField_ = "null"
          /\ aborted' = TRUE
          /\ UNCHANGED <<constructed, config, locals, particles>>
       \/ /\ layout' = [layout EXCEPT ![t] = L]
          /\ generator' = [generator EXCEPT ![GeneratorOf(t)] = Seeded(seed)]
          /\ base' = [base EXCEPT ![t] = Len(particles[t])]
          /\ calls' = [calls EXCEPT ![t] = @ + 1]
          /\ visited' = [visited EXCEPT ![t] = << >>]
          /\ ipart' = [ipart EXCEPT ![t] = 0]
          /\ cell' = [cell EXCEPT ![t] = NoCell]
          /\ iCell' = [iCell EXCEPT ![t] = IF HasCells(L) THEN L.start ELSE << >>]
          /\ pc' = [pc EXCEPT ![t] = IF HasCells(L) THEN "cell" ELSE "done"]
          /\ UNCHANGED <<constructed, config, particles, aborted>>

loadParticles1D_(t, L) ==
    /\ dimension = 1 /\ L \in AllLayouts(t, 1)
    /\ Enter(t, L, 1)

loadParticles2D_(t, L, seed) ==
    /\ dimension = 2 /\ L \in AllLayouts(t, 2)
    /\ Enter(t, L, seed)

loadParticles3D_(t, L, seed) ==
    /\ dimension = 3 /\ L \in AllLayouts(t, 3)
    /\ Enter(t, L, seed)

\* leaving the body of the cell loops: on to the next cell, or return
Leave(t) ==
    LET nxt == NextCell(iCell[t], layout[t])
    IN  /\ iCell' = [iCell EXCEPT ![t] = nxt]
        /\ pc' = [pc EXCEPT ![t] = IF nxt = << >> THEN "done" ELSE "cell"]

\* ------------------------------------------- the body of the cell loops, up
\* to the particle loop: coordinates, profiles, cell weight, local basis
CellBody(t, B) ==
    LET coord == cellCenteredCoordinates(iCell[t])
        n == density(density_, coord)
        V == bulkVelocity(bulkVelocity_, coord)
        Vth == thermalVelocity(thermalVelocity_, coord)
        w == cellWeightOf(n, cellVolume(layout[t]), nbrParticlePerCell_)
        basis == IF basis_ = "Magnetic" THEN localMagneticBasis(B)
                 ELSE NoCell.basis
    IN  /\ cell' = [cell EXCEPT ![t] =
                       [n |-> n, V |-> V, Vth |-> Vth, basis |-> basis,
                        cellWeight |-> w]]
        /\ visited' = [visited EXCEPT ![t] = Append(@, iCell[t])]
        /\ ipart' = [ipart EXCEPT ![t] = 0]
        /\ IF ParticleLoopRuns(0, nbrParticlePerCell_)
           THEN /\ pc' = [pc EXCEPT ![t] = "part"]
                /\ UNCHANGED iCell
           ELSE Leave(t)
        /\ UNCHANGED <<constructed, config, layout, generator, base, calls,
                       particles, aborted>>

\* magneticField(x...) is only called in the Magnetic basis.  Through a null
\* reference the call is undefined: the process dies, or the call returns
\* whatever it finds.
Cell(t) ==
    /\ ~aborted
    /\ pc[t] = "cell"
    /\ \/ /\ basis_ = "Magnetic" /\ magneticField_ = "null"
          /\ aborted' = TRUE
          /\ UNCHANGED <<constructed, config, locals, particles>>
       \/ /\ basis_ = "Magnetic" /\ magneticField_ = "null"
          /\ \E B \in GarbageFields : CellBody(t, B)
       \/ /\ ~(basis_ = "Magnetic" /\ magneticField_ = "null")
          /\ CellBody(t, magneticField(magneticField_,
                                       cellCenteredCoordinates(iCell[t])))

Cell1D(t) == dimension = 1 /\ Cell(t)
Cell2D(t) == dimension = 2 /\ Cell(t)
Cell3D(t) == dimension = 3 /\ Cell(t)

\* ------------------------------------------------ one turn of the particle
\* loop: velocity, basis transform, position in the cell, push_back
RECURSIVE DrawDelta(_, _)
\* {{randPosX(generator), randPosY(generator), ...}}: k values drawn in turn
DrawDelta(g, k) ==
    IF k = 0 THEN << >> ELSE <<Draw(g)>> \o DrawDelta(Advance(g), k - 1)
RECURSIVE AdvanceBy(_, _)
AdvanceBy(g, k) == IF k = 0 THEN g ELSE AdvanceBy(Advance(g), k - 1)

ParticleBody(t) ==
    LET g0 == generator[GeneratorOf(t)]
        sampled == maxwellianVelocity(cell[t].V, cell[t].Vth, g0)
        g1 == GeneratorAfterMaxwellian(g0)
        particleVelocity ==
            IF basis_ = "Magnetic" THEN basisTransform(cell[t].basis, sampled)
            ELSE sampled
        tmpParticle == [weight |-> cell[t].cellWeight,
                        charge |-> particleCharge_,
                        iCell |-> iCell[t],
                        delta |-> DrawDelta(g1, dimension),
                        v |-> particleVelocity]
    IN  /\ generator' = [generator EXCEPT ![GeneratorOf(t)] = AdvanceBy(g1, dimension)]
        /\ particles' = [particles EXCEPT ![t] = push_back(@, tmpParticle)]
        /\ IF ParticleLoopRuns(ipart[t] + 1, nbrParticlePerCell_)
           THEN /\ ipart' = [ipart EXCEPT ![t] = @ + 1]
                /\ UNCHANGED <<pc, iCell>>
           ELSE /\ ipart' = [ipart EXCEPT ![t] = @ + 1]
                /\ Leave(t)
        /\ UNCHANGED <<constructed, config, layout, cell, base, calls,
                       visited, aborted>>

Particle(t) ==
    /\ ~aborted
    /\ pc[t] = "part"
    /\ ParticleBody(t)

Particle1D(t) == dimension = 1 /\ Particle(t)
Particle2D(t) == dimension = 2 /\ Particle(t)
Particle3D(t) == dimension = 3 /\ Particle(t)

\* ------------------------------------------------------- specifications
ConstructAny ==
    \E d \in DensityProfiles, q \in Charges, nbr \in 0..MaxPPC,
       b \in BasisValues, mf \in MagneticProfiles : Construct(d, q, nbr, b, mf)

\* virtual loadParticles(particles, layout): dispatch on the dimension
loadParticles(t, extents) ==
    \/ \E L \in Layouts(t, 1, extents) : loadParticles1D_(t, L)
    \/ \E L \in Layouts(t, 2, extents), s \in RandomDeviceSeeds :
          loadParticles2D_(t, L, s)
    \/ \E L \in Layouts(t, 3, extents), s \in RandomDeviceSeeds :
          loadParticles3D_(t, L, s)

Run(t) ==
    \/ Cell1D(t) \/ Cell2D(t) \/ Cell3D(t)
    \/ Particle1D(t) \/ Particle2D(t) \/ Particle3D(t)

\* one thread calling loadParticles up to MaxCalls times on its container
Next ==
    \/ ConstructAny
    \/ calls[1] < MaxCalls /\ loadParticles(1, 0..MaxExtent)
    \/ Run(1)

Spec == Init /\ [][Next]_vars

\* two threads, each calling loadParticles once, on its own container and
\* its own region (one cell or MaxExtent cells along x)
ConcNext ==
    \/ ConstructAny
    \/ \E t \in Threads : calls[t] < 1 /\ loadParticles(t, {1, MaxExtent})
    \/ \E t \in Threads : Run(t)

ConcSpec == Init /\ [][ConcNext]_vars

\* ======================================================== properties
\* the particles the current (or last) call of thread t has appended
Appended(t) == SubSeq(particles[t], base[t] + 1, Len(particles[t]))
Returned(t) == pc[t] = "done"

RECURSIVE ProdSeq(_)
ProdSeq(s) == IF s = << >> THEN 1 ELSE Head(s) * ProdSeq(Tail(s))

\* the physical cells of a layout, and their lexicographic enumeration
Extent(L, k) == IF L.end[k] > L.start[k] THEN L.end[k] - L.start[k] ELSE 0
PhysicalCells(L) ==
    { i \in [1..Len(L.start) -> 0..(2 * MaxExtent + 2)] :
        \A k \in 1..Len(L.start) : L.start[k] <= i[k] /\ i[k] < L.end[k] }
NbrCells(L) == ProdSeq([k \in 1..Len(L.start) |-> Extent(L, k)])
\* number of cells spanned by one step of axis k (axes after k vary faster)
Stride(L, k) == ProdSeq([j \in 1..(Len(L.start) - k) |-> Extent(L, k + j)])
LexCell(L, m) ==
    [k \in 1..Len(L.start) |-> L.start[k] + ((m \div Stride(L, k)) % Extent(L, k))]
LexCells(L) == [m \in 1..NbrCells(L) |-> LexCell(L, m - 1)]

LexLeq(a, b) ==
    \/ a = b
    \/ \E k \in 1..Len(a) : a[k] < b[k] /\ \A j \in 1..(k - 1) : a[j] = b[j]

CountIn(seq, c) == Cardinality({k \in 1..Len(seq) : seq[k].iCell = c})

\* ------------------------------------------------------------------ C1
\* C1: with N > 0 particles per cell, every particle a call appends for a
\* cell carries the weight density(cellCenter) * cellVolume / N, where
\* cellVolume is the product of the mesh sizes of the layout's axes; once
\* the call has returned, the weights of the particles of each physical cell
\* add up to density(cellCenter) * cellVolume (the numerators over the
\* common denominator N add up to N times that value).
C1_WeightSum ==
    \A t \in Threads :
        LET A == Appended(t)
            vol == ProdSeq(layout[t].meshSize)
            total(c) == density(density_, cellCenteredCoordinates(c)) * vol
        IN  /\ \A k \in 1..Len(A) :
                 /\ nbrParticlePerCell_ > 0
                 /\ A[k].weight = [num |-> total(A[k].iCell),
                                   den |-> nbrParticlePerCell_]
            /\ (Returned(t) /\ nbrParticlePerCell_ > 0) =>
                 \A c \in PhysicalCells(layout[t]) :
                     SumSeq([k \in 1..Len(A) |->
                               IF A[k].iCell = c THEN A[k].weight.num ELSE 0])
                       = total(c) * nbrParticlePerCell_

C1_Witness ==
    /\ Returned(1) /\ dimension = 3 /\ nbrParticlePerCell_ = 2
    /\ density_ = "dip" /\ Len(Appended(1)) = 16

\* ------------------------------------------------------------------ C2
\* C2: when a call has returned, every physical cell of its layout is the
\* iCell of exactly nbrParticlePerCell_ of the particles it appended, no
\* appended particle has an iCell outside the physical range, the number of
\* appended particles is the number of physical cells times
\* nbrParticlePerCell_, and every one carries the configured charge.
C2_CoverOnce ==
    \A t \in Threads :
        Returned(t) =>
            LET A == Appended(t)
                L == layout[t]
            IN  /\ \A c \in PhysicalCells(L) : CountIn(A, c) = nbrParticlePerCell_
                /\ \A k \in 1..Len(A) : A[k].iCell \in PhysicalCells(L)
                /\ Len(A) = NbrCells(L) * nbrParticlePerCell_
                /\ \A k \in 1..Len(A) : A[k].charge = particleCharge_

C2_Witness ==
    /\ Returned(1) /\ dimension = 1 /\ nbrParticlePerCell_ = 2
    /\ layout[1].end[1] - layout[1].start[1] = 2 /\ Len(Appended(1)) = 4

\* ------------------------------------------------------------------ C3
\* C3: every step keeps each container's old contents as a prefix of its new
\* contents; a step of a running call leaves its layout alone, and once the
\* initializer is constructed no step changes its configuration.
IsPrefix(a, b) == Len(a) <= Len(b) /\ SubSeq(b, 1, Len(a)) = a

C3_Additive ==
    [][/\ \A t \in Threads : IsPrefix(particles[t], particles'[t])
       /\ \A t \in Threads : pc[t] \in {"cell", "part"} => layout'[t] = layout[t]
       /\ constructed => config' = config]_vars

C3_Witness ==
    /\ calls[1] = 2 /\ Returned(1) /\ base[1] > 0
    /\ Len(particles[1]) > base[1]

\* ------------------------------------------------------------------ C4
\* C4 (as claimed): no particle of negative weight is ever in a container,
\* and no particle is appended for a cell whose density is negative.
C4_NoNegativeWeight ==
    \A t \in Threads : \A k \in 1..Len(particles[t]) :
        /\ particles[t][k].weight.num >= 0
        /\ density(density_, cellCenteredCoordinates(particles[t][k].iCell)) >= 0

\* ------------------------------------------------------------------ C5
\* C5 (as claimed): no initializer exists whose basis is Magnetic and whose
\* magnetic field profile is absent, so no call runs on one.
C5_ConstructionRejects ==
    constructed => ~(basis_ = "Magnetic" /\ magneticField_ = "null")

\* ------------------------------------------------------------------ C6
\* C6 (as claimed): in the Magnetic basis with a field profile, the particles
\* of a cell whose field is degenerate carry the sampled velocity, with no
\* basis transform applied.
C6_DegenerateFallsBack ==
    (basis_ = "Magnetic" /\ magneticField_ # "null") =>
        \A t \in Threads : \A k \in 1..Len(particles[t]) :
            LET p == particles[t][k]
                B == magneticField(magneticField_, cellCenteredCoordinates(p.iCell))
            IN  B = <<0, 0, 0>> => p.v.frame.kind = "sampled"

\* ------------------------------------------------------------------ C7
\* C7: with nbrParticlePerCell_ = 0 no particle is ever appended and the
\* particle loop is never entered; a call that has returned has entered the
\* body of every physical cell of its layout, in order, each with a cell
\* weight whose denominator is the zero count; and the process dies only
\* where the absent magnetic field profile is dereferenced, never at the
\* division.
C7_ZeroPerCell ==
    (constructed /\ nbrParticlePerCell_ = 0) =>
        /\ \A t \in Threads :
              /\ particles[t] = << >>
              /\ pc[t] # "part"
              /\ Returned(t) => visited[t] = LexCells(layout[t])
              /\ visited[t] # << >> => cell[t].cellWeight.den = 0
        /\ aborted => magneticField_ = "null"

C7_Witness ==
    /\ constructed /\ nbrParticlePerCell_ = 0 /\ Returned(1)
    /\ Len(visited[1]) = 4 /\ ~aborted

\* ------------------------------------------------------------------ C8
\* C8: under any interleaving of two calls on their own containers and
\* regions, each call's generator has advanced by exactly the draws of that
\* call's own particles, and a call that has returned has appended exactly
\* what it appends alone: for each physical cell in lexicographic order,
\* nbrParticlePerCell_ particles with that iCell, the cell's weight, the
\* configured charge and the positions drawn in turn from its own generator.
ExpectedParticle(t, m) ==
    LET L == layout[t]
        c == LexCell(L, m \div nbrParticlePerCell_)
        g == generator[t]
    IN  [iCell |-> c,
         weight |-> [num |-> density(density_, cellCenteredCoordinates(c))
                               * ProdSeq(L.meshSize),
                     den |-> nbrParticlePerCell_],
         charge |-> particleCharge_,
         delta |-> [j \in 1..dimension |-> <<g.seed, dimension * m + j - 1>>]]

Observed(p) ==
    [iCell |-> p.iCell, weight |-> p.weight, charge |-> p.charge,
     delta |-> p.delta]

C8_NoInterference ==
    \A t \in Threads :
        LET A == Appended(t)
        IN  /\ pc[t] # "idle" => generator[t].pos = dimension * Len(A)
            /\ Returned(t) =>
                 /\ Len(A) = NbrCells(layout[t]) * nbrParticlePerCell_
                 /\ \A k \in 1..Len(A) : Observed(A[k]) = ExpectedParticle(t, k - 1)

C8_Witness ==
    /\ Returned(1) /\ Returned(2)
    /\ Len(particles[1]) >= 2 /\ Len(particles[2]) >= 2
    /\ layout[1].start[1] < layout[1].end[1]
    /\ layout[1].end[1] <= layout[2].start[1]

\* ------------------------------------------------------------------ C9
\* C9: at every moment of a call the iCell of the particles it has appended
\* so far never decreases in lexicographic order (x first, then y, then z),
\* and when a particle of another cell follows, the earlier cell already has
\* all its nbrParticlePerCell_ particles.
C9_LexOrder ==
    \A t \in Threads :
        LET A == Appended(t)
        IN  \A k \in 1..(Len(A) - 1) :
                /\ LexLeq(A[k].iCell, A[k + 1].iCell)
                /\ A[k].iCell # A[k + 1].iCell =>
                      CountIn(SubSeq(A, 1, k), A[k].iCell) = nbrParticlePerCell_

C9_Witness ==
    /\ Returned(1) /\ dimension = 3 /\ nbrParticlePerCell_ = 2
    /\ Len(Appended(1)) = 16 /\ density_ = "uniform"

\* ----------------------------------------------------------------- C10
\* C10 (as claimed): for every particle, the generator states its position
\* draws come from are none of the states its velocity was sampled from.
C10_DisjointDraws ==
    \A t \in Threads : \A k \in 1..Len(particles[t]) :
        LET p == particles[t][k]
        IN  \A j \in 1..Len(p.delta) : p.delta[j] \notin p.v.states

====
